---- MODULE Spec2Model ----
(***************************************************************************)
(* Model of the movie actor runtime: the run loop generated by the         *)
(* actor! macro (movie_derive/src/lib.rs, lines 146-181) and the owner     *)
(* side Handle (movie_utils/src/lib.rs).                                   *)
(*                                                                         *)
(* The actor thread and the owner thread interleave at the granularity of  *)
(* one channel operation or one hook invocation.  Hooks are opaque user    *)
(* code: each invocation either returns or panics.                         *)
(***************************************************************************)
EXTENDS Integers, Sequences, FiniteSets, TLC

\* Bounds of the exploration (not program constants).
MaxSend == 2     \* messages the owner sends through the handle
MaxKill == 1     \* stop signals the owner enqueues through the pub `kill` field
MaxCount == 2    \* saturation point of the hook-run counters
MaxQueue == 1    \* mailbox length up to which a cloned sender keeps sending
MaxSections == 2 \* keyword sections in a generated macro input

VARIABLES
    pc,          \* position of the actor thread inside the spawned closure
    running,     \* `let mut running` of the run loop
    rx_ota,      \* queue of the owner-to-actor data channel
    rx_kill,     \* queue of the owner-to-actor stop channel
    owner,       \* what the owner thread has done with the Handle
    sent,        \* number of messages enqueued so far (messages are 1..sent)
    kills,       \* number of direct kill.send(()) calls so far
    dispatched,  \* messages handed to on_message, in dispatch order
    initCount,   \* runs of on_init (saturating)
    stopCount,   \* runs of on_stop (saturating)
    observed,    \* stop polls that received a signal (saturating)
    drained,     \* this iteration's drain has seen the mailbox empty
    iterSent,    \* value of `sent` when the current iteration began
    iterQueued,  \* messages queued when the current iteration began
    drainSent,   \* value of `sent` when the current iteration's drain ended
    pollSent,    \* value of `sent` at the stop poll that received the signal
    lines_parsed, \* thread-local counter of StreamParsingActor (counted up to MaxCount)
    state_rx,    \* values received from state_tx, one per answered SendState
    iters,       \* completed loop iterations (saturating)
    tickCount,   \* runs of on_tick (saturating)
    failed,      \* the hook that panicked, "none" while none has
    stopPending, \* stop() has enqueued its signal and on_stop has not started since
    stopTicks,   \* runs of on_tick since stop() enqueued its signal (saturating)
    stopSleeps,  \* sleeps completed since stop() enqueued its signal (saturating)
    ev,          \* the step that was taken last
    sections,    \* the keyword sections the macro input was written with
    input,       \* input.to_string(): the text handed to actor_internal
    result       \* what actor_internal made of it

vars == <<pc, running, rx_ota, rx_kill, owner, sent, kills, dispatched,
          initCount, stopCount, observed, drained, iterSent, iterQueued,
          drainSent, pollSent, lines_parsed, state_rx, iters, tickCount,
          failed, stopPending, stopTicks, stopSleeps, ev, sections, input,
          result>>

stopVars == <<stopPending, stopTicks, stopSleeps>>

actorVars == <<pc, running, dispatched, initCount, stopCount, observed,
               drained, iterSent, iterQueued, drainSent, pollSent,
               lines_parsed, state_rx, iters, tickCount, failed>>

Unit == "unit"

Event(kind, ok, msg) == [kind |-> kind, ok |-> ok, msg |-> msg]

Bump(n) == IF n < MaxCount THEN n + 1 ELSE n

\* The spawned closure has returned or unwound: both receivers are dropped.
Terminated == pc \in {"done", "panicked"}

\* std::sync::mpsc::Sender::send: fails only when the receiver is gone.
ChanSend(q, m) ==
    IF Terminated THEN [ok |-> FALSE, q |-> q]
                  ELSE [ok |-> TRUE, q |-> Append(q, m)]

\* Faulty variant: the receiver hands out the newest queued value.
TryRecvLast(q) ==
    IF q # <<>> THEN [ok |-> TRUE, val |-> q[Len(q)], rest |-> SubSeq(q, 1, Len(q) - 1)]
                ELSE [ok |-> FALSE, val |-> 0, rest |-> q]

\* Receiver::try_recv: the oldest queued value, or Err when nothing is queued
\* (Empty and Disconnected are not told apart by `if let Ok` / `while let Ok`).
TryRecv(q) ==
    IF q # <<>> THEN [ok |-> TRUE, val |-> Head(q), rest |-> Tail(q)]
                ELSE [ok |-> FALSE, val |-> 0, rest |-> q]

RuntimeInit ==
    /\ pc = "init"
    /\ running = FALSE
    /\ rx_ota = <<>>
    /\ rx_kill = <<>>
    /\ owner = "held"
    /\ sent = 0
    /\ kills = 0
    /\ dispatched = <<>>
    /\ initCount = 0
    /\ stopCount = 0
    /\ observed = 0
    /\ drained = FALSE
    /\ iterSent = 0
    /\ iterQueued = 0
    /\ drainSent = 0
    /\ pollSent = 0
    /\ lines_parsed = 0
    /\ state_rx = <<>>
    /\ iters = 0
    /\ tickCount = 0
    /\ failed = "none"
    /\ stopPending = FALSE
    /\ stopTicks = 0
    /\ stopSleeps = 0
    /\ ev = Event("start", TRUE, 0)


runtimeVars == <<pc, running, rx_ota, rx_kill, owner, sent, kills, dispatched,
                 initCount, stopCount, observed, drained, iterSent, iterQueued,
                 drainSent, pollSent, lines_parsed, state_rx, iters, tickCount,
                 failed, stopPending, stopTicks, stopSleeps, ev>>

macroVars == <<sections, input, result>>

----------------------------------------------------------------------------
\* The macro: actor_internal.  A text is a sequence of symbols: the two
\* whitespace characters " " and "\n", the colon, and whole tokens.

\* supported_attributes: attr name, default value
SupportedAttributes == <<
    <<"public_visibility", <<>>>>,
    <<"docs", <<>>>>,
    <<"input", <<>>>>,
    <<"input_derive", <<>>>>,
    <<"data", <<>>>>,
    <<"on_init", <<>>>>,
    <<"on_message", <<>>>>,
    <<"tick_interval", <<"100">>>>,
    <<"on_tick", <<>>>>,
    <<"on_stop", <<>>>>,
    <<"spawner", <<"std::thread::spawn">>>>,
    <<"spawner_return_type", <<"std::thread::JoinHandle<()>">>>>,
    <<"custom_code", <<>>>> >>

Keywords == {SupportedAttributes[i][1] : i \in DOMAIN SupportedAttributes}

\* search_strings, in the order the code tries them
SearchStrings(attr) == <<
    <<"\n", attr, " ", ":", "\n">>,
    <<" ", attr, " ", ":", "\n">>,
    <<"\n", attr, " ", ":", " ">>,
    <<" ", attr, " ", ":", " ">>,
    <<"\n", attr, "\n", ":", "\n">>,
    <<" ", attr, "\n", ":", "\n">>,
    <<"\n", attr, "\n", ":", " ">>,
    <<" ", attr, "\n", ":", " ">> >>

\* pat occurs in s at the 0-based offset i
StartsAt(s, pat, i) ==
    /\ i + Len(pat) <= Len(s)
    /\ \A j \in 1..Len(pat) : s[i + j] = pat[j]

\* str::find: offset of the first occurrence, -1 for None
Find(s, pat) ==
    LET hits == {i \in 0..(Len(s) - Len(pat)) : StartsAt(s, pat, i)} IN
    IF hits = {} THEN -1
    ELSE CHOOSE i \in hits : \A j \in hits : i <= j

\* Faulty variant: the positionally first occurrence of any rendering.
LocateFirstPosition(s, attr) ==
    LET ss == SearchStrings(attr)
        hits == {Find(s, ss[k]) : k \in DOMAIN ss} \ {-1} IN
    IF hits = {} THEN <<>>
    ELSE LET pos == CHOOSE i \in hits : \A j \in hits : i <= j IN
         << <<pos, attr, pos + 5>> >>

\* for search_str in search_strings { if let Some(pos) .. push; break }
Locate(s, attr) ==
    LET ss == SearchStrings(attr)
        found == {k \in DOMAIN ss : Find(s, ss[k]) >= 0} IN
    IF found = {} THEN <<>>
    ELSE LET k == CHOOSE i \in found : \A j \in found : i <= j
             pos == Find(s, ss[k]) IN
         << <<pos, attr, pos + Len(ss[k])>> >>

RECURSIVE LocateFrom(_, _)
LocateFrom(s, i) ==
    IF i > Len(SupportedAttributes) THEN <<>>
    ELSE Locate(s, SupportedAttributes[i][1]) \o LocateFrom(s, i + 1)

\* PART ONE: locations = [(start, attr name, start of content), ...]
Locations(s) == << <<0, "name", 0>> >> \o LocateFrom(s, 1)

\* byte order of the attr names, as &str compares them
StrOrder == <<"custom_code", "data", "docs", "input", "input_derive", "name",
              "on_init", "on_message", "on_stop", "on_tick",
              "public_visibility", "spawner", "spawner_return_type",
              "tick_interval">>

StrRank(a) == CHOOSE i \in DOMAIN StrOrder : StrOrder[i] = a

\* Ord of (usize, &str, usize)
LocLess(a, b) ==
    \/ a[1] < b[1]
    \/ a[1] = b[1] /\ StrRank(a[2]) < StrRank(b[2])
    \/ a[1] = b[1] /\ a[2] = b[2] /\ a[3] < b[3]

RECURSIVE SortSet(_)
SortSet(S) ==
    IF S = {} THEN <<>>
    ELSE LET m == CHOOSE x \in S : \A y \in S : x = y \/ LocLess(x, y) IN
         <<m>> \o SortSet(S \ {m})

\* locations.sort_unstable()
SortLocations(locs) == SortSet({locs[i] : i \in DOMAIN locs})

\* &input[a..b]: panics unless a <= b <= len
Slice(s, a, b) ==
    [ok |-> a <= b /\ b <= Len(s), val |-> SubSeq(s, a + 1, b)]

\* Faulty variant: a segment runs up to the next segment's content.
SegmentAtContentStart(s, locs, i) ==
    IF i = Len(locs) THEN Slice(s, locs[i][3], Len(s))
    ELSE Slice(s, locs[i][3], locs[i + 1][3])

\* the value of the i-th location: up to the next segment's start, the last
\* one up to the end of the input
SegmentAt(s, locs, i) ==
    IF i = Len(locs) THEN Slice(s, locs[i][3], Len(s))
    ELSE Slice(s, locs[i][3], locs[i + 1][1])

\* PART TWO: attrs.insert(locations[i].1, value) for every i
Segments(s, locs) ==
    [ok |-> \A i \in DOMAIN locs : SegmentAt(s, locs, i).ok,
     map |-> [k \in {locs[i][2] : i \in DOMAIN locs} |->
                LET i == CHOOSE j \in DOMAIN locs :
                           /\ locs[j][2] = k
                           /\ \A h \in DOMAIN locs : locs[h][2] = k => h <= j
                IN SegmentAt(s, locs, i).val]]

Default(attr) ==
    LET i == CHOOSE j \in DOMAIN SupportedAttributes :
                 SupportedAttributes[j][1] = attr
    IN SupportedAttributes[i][2]

\* Faulty variant: insert in place of entry().or_insert().
FillDefaultsOverwrite(map) ==
    [k \in (DOMAIN map) \cup Keywords |->
        IF k \in Keywords THEN Default(k) ELSE map[k]]

\* PART THREE: attrs.entry(attr.0).or_insert(attr.1)
FillDefaults(map) ==
    [k \in (DOMAIN map) \cup Keywords |->
        IF k \in DOMAIN map THEN map[k] ELSE Default(k)]

NoAttrs == [k \in {} |-> <<>>]

\* actor_internal: PART ONE to PART FOUR.  The generated scaffold is kept as
\* the attrs it was formatted from plus the two prepared strings.
ActorInternal(s, debug) ==
    LET locs == SortLocations(Locations(s))
        seg == Segments(s, locs)
        attrs == FillDefaults(seg.map)
    IN IF seg.ok
       THEN [status |-> "generated", debug |-> debug, locations |-> locs,
             segments |-> seg.map, attrs |-> attrs,
             public |-> \E i \in DOMAIN attrs["public_visibility"] :
                            attrs["public_visibility"][i] = "true",
             derive |-> Len(attrs["input_derive"]) > 0]
       ELSE [status |-> "panic", debug |-> debug, locations |-> locs,
             segments |-> NoAttrs, attrs |-> NoAttrs,
             public |-> FALSE, derive |-> FALSE]

NotExpanded ==
    [status |-> "none", debug |-> FALSE, locations |-> <<>>,
     segments |-> NoAttrs, attrs |-> NoAttrs, public |-> FALSE,
     derive |-> FALSE]

\* TokenStream::to_string of `Name kw: content kw: content ..`: tokens
\* separated by one whitespace character each
RECURSIVE Render(_, _)
Render(name, secs) ==
    IF secs = <<>> THEN name
    ELSE Render(name \o <<Head(secs).lead, Head(secs).kw, Head(secs).mid, ":">>
                     \o Head(secs).content,
                Tail(secs))

\* tests/simplest.rs: SimpleActor input: Ping, on_message: Ping => (),
SimpleActorText ==
    <<"SimpleActor", " ", "input", " ", ":", " ", "Ping", " ", ",", " ",
      "on_message", " ", ":", " ", "Ping", " ", "=>", " ", "(", " ", ")",
      " ", ",">>

\* "A input: Ping, on_message: Ping => noop," as to_string renders it
ExampleText ==
    <<"A", " ", "input", " ", ":", " ", "Ping", " ", ",", " ",
      "on_message", " ", ":", " ", "Ping", " ", "=>", " ", "noop", " ", ",">>

\* tests/advanced.rs: the StreamParsingActor text as to_string renders it
\* (comments dropped, tokens separated by single spaces; the two string
\* literals are shortened to one symbol each)
StreamParsingText ==
    <<"StreamParsingActor", " ", "input", " ", ":", " ", "ChangeSource", " ",
      "(", " ", "String", " ", ")", " ", ",", " ", "SendState", " ", ",",
      " ", "input_derive", " ", ":", " ", "Debug", " ", ",", " ",
      "PartialEq", " ", ",", " ", "data", " ", ":", " ", "pub", " ",
      "device", " ", ":", " ", "String", " ", ",", " ", "pub", " ",
      "state_tx", " ", ":", " ", "Sender", " ", "<", " ", "u64", " ", ">",
      " ", ",", " ", "on_init", " ", ":", " ", "if", " ", "self", " ", ".",
      " ", "device", " ", "==", " ", "\"admin_secret_device\"", " ", "{",
      " ", "panic", " ", "!", " ", "(", " ", "\"No_access_right\"", " ", ")",
      " ", ";", " ", "}", " ", "let", " ", "mut", " ", "lines_parsed", " ",
      "=", " ", "0", " ", ";", " ", "on_message", " ", ":", " ",
      "ChangeSource", " ", "(", " ", "name", " ", ")", " ", "=>", " ", "{",
      " ", "self", " ", ".", " ", "device", " ", "=", " ", "name", " ", ";",
      " ", "}", " ", ",", " ", "SendState", " ", "=>", " ", "{", " ", "self",
      " ", ".", " ", "state_tx", " ", ".", " ", "send", " ", "(", " ",
      "lines_parsed", " ", ")", " ", ".", " ", "unwrap", " ", "(", " ", ")",
      " ", ";", " ", "}", " ", "tick_interval", " ", ":", " ", "5", " ", ",",
      " ", "on_tick", " ", ":", " ", "lines_parsed", " ", "+=", " ", "1",
      " ", ";", " ", "on_stop", " ", ":", " ", "(", " ", ")", " ",
      "custom_code", " ", ":", " ", "pub", " ", "const", " ",
      "DEFAULT_DEVICE", " ", ":", " ", "&", " ", "'static", " ", "str", " ",
      "=", " ", "\"video0\"", " ", ";">>

\* Macro inputs explored: the name A followed by up to MaxSections sections,
\* keywords possibly repeated, contents possibly empty.
NameText == <<"A">>
Whitespace == {" ", "\n"}
SectionKeywords == {"input", "on_message"}
Contents == {<<>>, <<" ", "x">>, <<"\n", "y">>}
Section == [kw : SectionKeywords, lead : Whitespace, mid : Whitespace,
            content : Contents]
SectionSeqs == UNION {[1..n -> Section] : n \in 0..MaxSections}

MacroInit ==
    /\ RuntimeInit
    /\ result = NotExpanded
    /\ \/ sections \in SectionSeqs /\ input = Render(NameText, sections)
       \/ sections = <<>> /\ input = ExampleText
       \/ sections = <<>> /\ input = StreamParsingText

\* actor! { .. }
ActorMacro ==
    /\ result.status = "none"
    /\ result' = ActorInternal(input, FALSE)
    /\ UNCHANGED <<sections, input>>
    /\ UNCHANGED runtimeVars

\* actor_dbg! { .. }
ActorDbgMacro ==
    /\ result.status = "none"
    /\ result' = ActorInternal(input, TRUE)
    /\ UNCHANGED <<sections, input>>
    /\ UNCHANGED runtimeVars

MacroNext == ActorMacro \/ ActorDbgMacro

\* Actor {}.start() of the actor that actor! expanded from tests/simplest.rs
Init ==
    /\ RuntimeInit
    /\ sections = <<>>
    /\ input = SimpleActorText
    /\ result = ActorInternal(input, FALSE)

----------------------------------------------------------------------------
\* The actor thread

\* Faulty variant: a failure of on_init is swallowed and the loop is entered.
OnInitSwallow ==
    /\ pc = "init"
    /\ initCount' = Bump(initCount)
    /\ \E ok \in BOOLEAN :
        /\ pc' = "loop"
        /\ running' = TRUE
        /\ failed' = IF ok THEN failed ELSE "init"
        /\ ev' = Event("init", ok, 0)
    /\ lines_parsed' = 0
    /\ UNCHANGED <<state_rx, iters, tickCount>>
    /\ UNCHANGED <<rx_ota, rx_kill, owner, sent, kills, dispatched, stopCount,
                   observed, drained, iterSent, iterQueued, drainSent, pollSent>>
    /\ UNCHANGED stopVars

\* {on_init} (let mut lines_parsed = 0 in StreamParsingActor); let mut running = true;
OnInit ==
    /\ pc = "init"
    /\ initCount' = Bump(initCount)
    /\ \E ok \in BOOLEAN :
        /\ pc' = IF ok THEN "loop" ELSE "panicked"
        /\ running' = ok
        /\ failed' = IF ok THEN failed ELSE "init"
        /\ ev' = Event("init", ok, 0)
    /\ lines_parsed' = 0
    /\ UNCHANGED <<state_rx, iters, tickCount>>
    /\ UNCHANGED <<rx_ota, rx_kill, owner, sent, kills, dispatched, stopCount,
                   observed, drained, iterSent, iterQueued, drainSent, pollSent>>
    /\ UNCHANGED stopVars

\* Faulty variant: on_init placed inside the loop body.
LoopCheckReinit ==
    /\ pc = "loop"
    /\ pc' = IF running THEN "init" ELSE "done"
    /\ drained' = FALSE
    /\ iterSent' = sent
    /\ iterQueued' = Len(rx_ota)
    /\ ev' = Event("loop", running, 0)
    /\ UNCHANGED <<running, rx_ota, rx_kill, owner, sent, kills, dispatched,
                   initCount, stopCount, observed, drainSent, pollSent>>
    /\ UNCHANGED <<lines_parsed, state_rx, iters, tickCount, failed>>
    /\ UNCHANGED stopVars

\* while running { ... }  and the end of the closure
LoopCheck ==
    /\ pc = "loop"
    /\ pc' = IF running THEN "drain" ELSE "done"
    /\ drained' = IF running THEN FALSE ELSE drained
    /\ iterSent' = IF running THEN sent ELSE iterSent
    /\ iterQueued' = IF running THEN Len(rx_ota) ELSE iterQueued
    /\ ev' = Event("loop", running, 0)
    /\ UNCHANGED <<running, rx_ota, rx_kill, owner, sent, kills, dispatched,
                   initCount, stopCount, observed, drainSent, pollSent>>
    /\ UNCHANGED <<lines_parsed, state_rx, iters, tickCount, failed>>
    /\ UNCHANGED stopVars

\* Faulty variant: `if let` in place of `while let`, one message per iteration.
DrainOnce ==
    /\ pc = "drain"
    /\ LET r == TryRecv(rx_ota) IN
        IF r.ok
        THEN /\ rx_ota' = r.rest
             /\ dispatched' = IF r.val > 0 THEN Append(dispatched, r.val)
                                          ELSE dispatched
             /\ drainSent' = sent
             /\ \E ok \in BOOLEAN :
                 /\ pc' = IF ok THEN "poll" ELSE "panicked"
                 /\ state_rx' = IF ok /\ r.val > 0
                                 THEN Append(state_rx, lines_parsed)
                                 ELSE state_rx
                 /\ failed' = IF ok THEN failed ELSE "msg"
                 /\ ev' = Event("msg", ok, r.val)
             /\ UNCHANGED drained
        ELSE /\ pc' = "poll"
             /\ drained' = TRUE
             /\ drainSent' = sent
             /\ ev' = Event("empty", TRUE, 0)
             /\ UNCHANGED <<rx_ota, dispatched, state_rx, failed>>
    /\ UNCHANGED <<running, rx_kill, owner, sent, kills, initCount, stopCount,
                   observed, iterSent, iterQueued, pollSent>>
    /\ UNCHANGED <<lines_parsed, iters, tickCount>>
    /\ UNCHANGED stopVars

\* Faulty variant: received messages are dropped without a dispatch.
DrainDiscard ==
    /\ pc = "drain"
    /\ LET r == TryRecv(rx_ota) IN
        IF r.ok
        THEN /\ rx_ota' = r.rest
             /\ pc' = "drain"
             /\ ev' = Event("discard", TRUE, r.val)
             /\ UNCHANGED <<dispatched, drained, drainSent, state_rx, failed>>
        ELSE /\ pc' = "poll"
             /\ drained' = TRUE
             /\ drainSent' = sent
             /\ ev' = Event("empty", TRUE, 0)
             /\ UNCHANGED <<rx_ota, dispatched, state_rx, failed>>
    /\ UNCHANGED <<running, rx_kill, owner, sent, kills, initCount, stopCount,
                   observed, iterSent, iterQueued, pollSent>>
    /\ UNCHANGED <<lines_parsed, iters, tickCount>>
    /\ UNCHANGED stopVars

\* while let Ok(message) = rx_ota.try_recv() { match message { on_message } }
Drain ==
    /\ pc = "drain"
    /\ LET r == TryRecv(rx_ota) IN
        IF r.ok
        THEN /\ rx_ota' = r.rest
             /\ dispatched' = IF r.val > 0 THEN Append(dispatched, r.val)
                                          ELSE dispatched
             /\ \E ok \in BOOLEAN :
                 /\ pc' = IF ok THEN "drain" ELSE "panicked"
                 /\ state_rx' = IF ok /\ r.val > 0
                                 THEN Append(state_rx, lines_parsed)
                                 ELSE state_rx
                 /\ failed' = IF ok THEN failed ELSE "msg"
                 /\ ev' = Event("msg", ok, r.val)
             /\ UNCHANGED <<drained, drainSent>>
        ELSE /\ pc' = "poll"
             /\ drained' = TRUE
             /\ drainSent' = sent
             /\ ev' = Event("empty", TRUE, 0)
             /\ UNCHANGED <<rx_ota, dispatched, state_rx, failed>>
    /\ UNCHANGED <<running, rx_kill, owner, sent, kills, initCount, stopCount,
                   observed, iterSent, iterQueued, pollSent>>
    /\ UNCHANGED <<lines_parsed, iters, tickCount>>
    /\ UNCHANGED stopVars

\* Faulty variant: the stop branch forgets `running = false`.
PollStopKeepRunning ==
    /\ pc = "poll"
    /\ LET r == TryRecv(rx_kill) IN
        /\ rx_kill' = r.rest
        /\ pc' = IF r.ok THEN "stop" ELSE "tick"
        /\ observed' = IF r.ok THEN Bump(observed) ELSE observed
        /\ pollSent' = IF r.ok THEN sent ELSE pollSent
        /\ ev' = Event("poll", r.ok, 0)
    /\ UNCHANGED <<running, rx_ota, owner, sent, kills, dispatched, initCount,
                   stopCount, drained, iterSent, iterQueued, drainSent>>
    /\ UNCHANGED <<lines_parsed, state_rx, iters, tickCount, failed>>
    /\ UNCHANGED stopVars

\* Faulty variant: the stop channel is never polled.
PollStopNever ==
    /\ pc = "poll"
    /\ pc' = "tick"
    /\ ev' = Event("poll", FALSE, 0)
    /\ UNCHANGED <<running, rx_ota, rx_kill, owner, sent, kills, dispatched,
                   initCount, stopCount, observed, drained, iterSent, iterQueued,
                   drainSent, pollSent>>
    /\ UNCHANGED <<lines_parsed, state_rx, iters, tickCount, failed>>
    /\ UNCHANGED stopVars

\* Faulty variant: a disconnected stop channel is taken for a stop request.
PollStopOnDisconnect ==
    /\ pc = "poll"
    /\ LET r == TryRecv(rx_kill)
           stop == r.ok \/ owner \in {"dropped", "stopped", "panicked"} IN
        /\ rx_kill' = r.rest
        /\ running' = IF stop THEN FALSE ELSE running
        /\ pc' = IF stop THEN "stop" ELSE "tick"
        /\ observed' = IF stop THEN Bump(observed) ELSE observed
        /\ pollSent' = IF stop THEN sent ELSE pollSent
        /\ ev' = Event("poll", stop, 0)
    /\ UNCHANGED <<rx_ota, owner, sent, kills, dispatched, initCount,
                   stopCount, drained, iterSent, iterQueued, drainSent>>
    /\ UNCHANGED <<lines_parsed, state_rx, iters, tickCount, failed>>
    /\ UNCHANGED stopVars

\* if let Ok(_) = rx_kill.try_recv() { running = false; ... }
PollStop ==
    /\ pc = "poll"
    /\ LET r == TryRecv(rx_kill) IN
        /\ rx_kill' = r.rest
        /\ running' = IF r.ok THEN FALSE ELSE running
        /\ pc' = IF r.ok THEN "stop" ELSE "tick"
        /\ observed' = IF r.ok THEN Bump(observed) ELSE observed
        /\ pollSent' = IF r.ok THEN sent ELSE pollSent
        /\ ev' = Event("poll", r.ok, 0)
    /\ UNCHANGED <<rx_ota, owner, sent, kills, dispatched, initCount,
                   stopCount, drained, iterSent, iterQueued, drainSent>>
    /\ UNCHANGED <<lines_parsed, state_rx, iters, tickCount, failed>>
    /\ UNCHANGED stopVars

\* Faulty variant: the mailbox is drained again after on_stop.
OnStopThenDrain ==
    /\ pc = "stop"
    /\ stopCount' = Bump(stopCount)
    /\ \E ok \in BOOLEAN :
        /\ pc' = IF ok THEN "drain" ELSE "panicked"
        /\ failed' = IF ok THEN failed ELSE "stop"
        /\ ev' = Event("stop", ok, 0)
    /\ UNCHANGED <<lines_parsed, state_rx, iters, tickCount>>
    /\ UNCHANGED <<running, rx_ota, rx_kill, owner, sent, kills, dispatched,
                   initCount, observed, drained, iterSent, iterQueued, drainSent, pollSent>>
    /\ stopPending' = FALSE
    /\ UNCHANGED <<stopTicks, stopSleeps>>

\* { on_stop } inside the `if let Ok(_)` branch; control then falls through
\* to the tick block of the same iteration.
OnStop ==
    /\ pc = "stop"
    /\ stopCount' = Bump(stopCount)
    /\ \E ok \in BOOLEAN :
        /\ pc' = IF ok THEN "tick" ELSE "panicked"
        /\ failed' = IF ok THEN failed ELSE "stop"
        /\ ev' = Event("stop", ok, 0)
    /\ UNCHANGED <<lines_parsed, state_rx, iters, tickCount>>
    /\ UNCHANGED <<running, rx_ota, rx_kill, owner, sent, kills, dispatched,
                   initCount, observed, drained, iterSent, iterQueued, drainSent, pollSent>>
    /\ stopPending' = FALSE
    /\ UNCHANGED <<stopTicks, stopSleeps>>

\* Faulty variant: the tick is skipped in an iteration that began with mail.
OnTickWhenIdle ==
    /\ pc = "tick"
    /\ \E ok \in BOOLEAN :
        /\ pc' = IF ok \/ iterQueued > 0 THEN "sleep" ELSE "panicked"
        /\ lines_parsed' = IF ok /\ iterQueued = 0 THEN Bump(lines_parsed)
                                                  ELSE lines_parsed
        /\ failed' = IF ok \/ iterQueued > 0 THEN failed ELSE "tick"
        /\ ev' = Event("tick", ok \/ iterQueued > 0, 0)
    /\ tickCount' = IF iterQueued = 0 THEN Bump(tickCount) ELSE tickCount
    /\ UNCHANGED <<state_rx, iters>>
    /\ UNCHANGED <<running, rx_ota, rx_kill, owner, sent, kills, dispatched,
                   initCount, stopCount, observed, drained, iterSent, iterQueued,
                   drainSent, pollSent>>
    /\ stopTicks' = IF stopPending /\ iterQueued = 0 THEN Bump(stopTicks)
                                                    ELSE stopTicks
    /\ UNCHANGED <<stopPending, stopSleeps>>

\* { on_tick } : not guarded by the stop poll (lines_parsed += 1 in StreamParsingActor)
OnTick ==
    /\ pc = "tick"
    /\ \E ok \in BOOLEAN :
        /\ pc' = IF ok THEN "sleep" ELSE "panicked"
        /\ lines_parsed' = IF ok THEN Bump(lines_parsed) ELSE lines_parsed
        /\ failed' = IF ok THEN failed ELSE "tick"
        /\ ev' = Event("tick", ok, 0)
    /\ tickCount' = Bump(tickCount)
    /\ UNCHANGED <<state_rx, iters>>
    /\ UNCHANGED <<running, rx_ota, rx_kill, owner, sent, kills, dispatched,
                   initCount, stopCount, observed, drained, iterSent, iterQueued,
                   drainSent, pollSent>>
    /\ stopTicks' = IF stopPending THEN Bump(stopTicks) ELSE stopTicks
    /\ UNCHANGED <<stopPending, stopSleeps>>

\* Faulty variant: after the sleep the loop body repeats the tick block
\* without returning to the drain and the stop poll.
SleepThenTick ==
    /\ pc = "sleep"
    /\ pc' = "tick"
    /\ ev' = Event("sleep", TRUE, 0)
    /\ UNCHANGED <<running, rx_ota, rx_kill, owner, sent, kills, dispatched,
                   initCount, stopCount, observed, drained, iterSent, iterQueued,
                   drainSent, pollSent>>
    /\ iters' = Bump(iters)
    /\ UNCHANGED <<lines_parsed, state_rx, tickCount, failed>>
    /\ stopSleeps' = IF stopPending THEN Bump(stopSleeps) ELSE stopSleeps
    /\ UNCHANGED <<stopPending, stopTicks>>

\* sleep(Duration::from_millis(tick_interval))
Sleep ==
    /\ pc = "sleep"
    /\ pc' = "loop"
    /\ ev' = Event("sleep", TRUE, 0)
    /\ UNCHANGED <<running, rx_ota, rx_kill, owner, sent, kills, dispatched,
                   initCount, stopCount, observed, drained, iterSent, iterQueued,
                   drainSent, pollSent>>
    /\ iters' = Bump(iters)
    /\ UNCHANGED <<lines_parsed, state_rx, tickCount, failed>>
    /\ stopSleeps' = IF stopPending THEN Bump(stopSleeps) ELSE stopSleeps
    /\ UNCHANGED <<stopPending, stopTicks>>

Actor == OnInit \/ LoopCheck \/ Drain \/ PollStop \/ OnStop \/ OnTick \/ Sleep

----------------------------------------------------------------------------
\* The owner thread

\* Faulty variant: the result of tx.send is discarded instead of unwrapped.
SendIgnoreErr ==
    /\ owner = "held"
    /\ sent < MaxSend
    /\ LET r == ChanSend(rx_ota, sent + 1) IN
        /\ rx_ota' = r.q
        /\ sent' = IF r.ok THEN sent + 1 ELSE sent
        /\ ev' = Event("send", TRUE, sent + 1)
    /\ UNCHANGED owner
    /\ UNCHANGED <<rx_kill, kills>>
    /\ UNCHANGED actorVars
    /\ UNCHANGED stopVars

\* Handle::send : self.tx.send(msg).unwrap()
Send ==
    /\ owner = "held"
    /\ sent < MaxSend
    /\ LET r == ChanSend(rx_ota, sent + 1) IN
        /\ rx_ota' = r.q
        /\ sent' = IF r.ok THEN sent + 1 ELSE sent
        /\ owner' = IF r.ok THEN owner ELSE "panicked"
        /\ ev' = Event("send", r.ok, sent + 1)
    /\ UNCHANGED <<rx_kill, kills>>
    /\ UNCHANGED actorVars
    /\ UNCHANGED stopVars

\* handle.kill.send(()) through the pub field, result left to the caller
KillSend ==
    /\ owner = "held"
    /\ kills < MaxKill
    /\ LET r == ChanSend(rx_kill, Unit) IN
        /\ rx_kill' = r.q
        /\ ev' = Event("kill", r.ok, 0)
    /\ kills' = kills + 1
    /\ UNCHANGED <<rx_ota, owner, sent>>
    /\ UNCHANGED actorVars
    /\ UNCHANGED stopVars

\* Handle::stop, first statement: self.kill.send(()) with the result unused
StopCall ==
    /\ owner = "held"
    /\ LET r == ChanSend(rx_kill, Unit) IN
        /\ rx_kill' = r.q
        /\ ev' = Event("stop_call", r.ok, 0)
    /\ owner' = "joining"
    /\ UNCHANGED <<rx_ota, sent, kills>>
    /\ UNCHANGED actorVars
    /\ stopPending' = ~Terminated
    /\ stopTicks' = 0
    /\ stopSleeps' = 0

\* Faulty variant: stop() returns without joining the thread.
StopJoinNoWait ==
    /\ owner = "joining"
    /\ owner' = "stopped"
    /\ ev' = Event("join", pc = "done", 0)
    /\ UNCHANGED <<rx_ota, rx_kill, sent, kills>>
    /\ UNCHANGED actorVars
    /\ UNCHANGED stopVars

\* Handle::stop, second statement: self.join_handle.join(), which returns
\* once the thread has finished (Ok) or unwound (Err, unused)
StopJoin ==
    /\ owner = "joining"
    /\ Terminated
    /\ owner' = "stopped"
    /\ ev' = Event("join", pc = "done", 0)
    /\ UNCHANGED <<rx_ota, rx_kill, sent, kills>>
    /\ UNCHANGED actorVars
    /\ UNCHANGED stopVars

\* The Handle goes out of scope without stop(): both senders are dropped,
\* the thread is detached.
DropHandle ==
    /\ owner = "held"
    /\ owner' = "dropped"
    /\ ev' = Event("drop", TRUE, 0)
    /\ UNCHANGED <<rx_ota, rx_kill, sent, kills>>
    /\ UNCHANGED actorVars
    /\ UNCHANGED stopVars

Owner == Send \/ KillSend \/ StopCall \/ StopJoin \/ DropHandle

\* Another thread holding a clone of the pub `tx` sender: tx.send(msg) at any
\* time, any number of times.  Its messages carry the value 0 (ChangeSource).
CloneSend ==
    /\ Len(rx_ota) < MaxQueue
    /\ LET r == ChanSend(rx_ota, 0) IN
        /\ rx_ota' = r.q
        /\ ev' = Event("clone_send", r.ok, 0)
    /\ UNCHANGED <<rx_kill, owner, sent, kills>>
    /\ UNCHANGED actorVars
    /\ UNCHANGED stopVars

----------------------------------------------------------------------------
Next == (Actor \/ Owner \/ CloneSend) /\ UNCHANGED macroVars

Spec == Init /\ [][Next]_vars

\* The actor thread is scheduled fairly and join() returns once it can.
LiveSpec ==
    /\ Init
    /\ [][Next]_vars
    /\ WF_vars(Actor /\ UNCHANGED macroVars)
    /\ WF_vars(StopJoin /\ UNCHANGED macroVars)

\* The macro alone, over the explored inputs
MacroSpec == MacroInit /\ [][MacroNext]_vars

TypeOK ==
    /\ pc \in {"init", "loop", "drain", "poll", "stop", "tick", "sleep",
               "done", "panicked"}
    /\ running \in BOOLEAN
    /\ owner \in {"held", "joining", "stopped", "dropped", "panicked"}
    /\ sent \in 0..MaxSend
    /\ kills \in 0..MaxKill
    /\ Len(rx_ota) <= MaxSend + MaxQueue
    /\ lines_parsed \in 0..MaxCount
    /\ iters \in 0..MaxCount
    /\ tickCount \in 0..MaxCount
    /\ Len(state_rx) <= MaxSend
    /\ failed \in {"none", "init", "msg", "stop", "tick"}
    /\ Len(rx_kill) <= MaxKill + 1
    /\ initCount \in 0..MaxCount
    /\ stopCount \in 0..MaxCount
    /\ observed \in 0..MaxCount
    /\ stopPending \in BOOLEAN
    /\ stopTicks \in 0..MaxCount
    /\ stopSleeps \in 0..MaxCount

----------------------------------------------------------------------------
\* Properties of the run loop and of the Handle

WasDispatched(m) == \E i \in 1..Len(dispatched) : dispatched[i] = m

\* C1: on_tick runs only in an iteration whose stop poll did not receive the
\* stop signal; on_tick never runs after on_stop.
C1_TickOnlyWithoutStop ==
    ev.kind = "tick" => (running /\ observed = 0 /\ stopCount = 0)

\* C2 (as stated): Handle.send returns normally in every state of the actor,
\* also after the actor thread has terminated.
C2_SendAlwaysSucceeds ==
    /\ ev.kind = "send" => ev.ok
    /\ owner # "panicked"

\* C2 (amended): Handle.send returns normally, with the message enqueued last
\* in the mailbox, exactly when the actor thread has not terminated; once it
\* has terminated the unwrap of the failed channel send panics in the sender.
C2_SendSucceedsWhileRunning ==
    /\ ev.kind = "send" => (ev.ok <=> ~Terminated)
    /\ (ev.kind = "send" /\ ev.ok) =>
          (rx_ota # <<>> /\ rx_ota[Len(rx_ota)] = ev.msg /\ owner = "held")
    /\ (ev.kind = "send" /\ ~ev.ok) => owner = "panicked"
    /\ owner = "panicked" => Terminated

C2_Witness ==
    /\ ev.kind = "send" /\ ~ev.ok
    /\ owner = "panicked"
    /\ pc = "done"

\* C3: when Handle.stop has returned, the actor thread has terminated.
C3_StopReturnsOnlyAfterTermination ==
    owner = "stopped" => Terminated

C3_Witness ==
    /\ ev.kind = "join"
    /\ owner = "stopped"
    /\ pc = "done"
    /\ dispatched # <<>>

\* C4: if no hook fails and no message is sent after the stop() call, that call
\* is followed, under fair scheduling of the actor, by the stop signal being
\* observed, on_stop running, the thread
\* terminating and stop() returning.
C4_StopEventuallyReturns ==
    ([](pc # "panicked") /\ [](owner = "joining" => ev.kind # "clone_send")) =>
        ((owner = "joining") ~>
            (owner = "stopped" /\ pc = "done" /\ observed >= 1 /\ stopCount >= 1))

C4_Witness ==
    /\ owner = "stopped"
    /\ pc = "done"
    /\ observed = 1
    /\ stopCount = 1
    /\ kills = 0

\* C5 (as stated): when on_stop runs, every message enqueued before the stop
\* poll that received the signal has been dispatched.
C5_EnqueuedBeforePollDispatched ==
    ev.kind = "stop" => \A m \in 1..pollSent : WasDispatched(m)

\* C5 (amended): when on_stop runs, every message enqueued before the drain
\* of that iteration ended (the mailbox poll that found it empty) has been
\* dispatched.
C5_EnqueuedBeforeDrainEndDispatched ==
    ev.kind = "stop" => \A m \in 1..drainSent : WasDispatched(m)

C5_Witness ==
    /\ ev.kind = "stop"
    /\ drainSent >= 2
    /\ iterQueued >= 1
    /\ owner = "joining"

\* C6: on_init runs exactly once, and before the first on_message dispatch,
\* the first mailbox or stop poll, the first on_stop and the first on_tick.
C6_InitOnceBeforeLoop ==
    /\ initCount <= 1
    /\ (pc = "init") <=> (initCount = 0)
    /\ ev.kind \in {"loop", "msg", "empty", "poll", "stop", "tick", "sleep"}
          => initCount = 1
    /\ initCount = 0 => (dispatched = <<>> /\ observed = 0 /\ stopCount = 0)

C6_Witness ==
    /\ ev.kind = "init" /\ ev.ok
    /\ initCount = 1
    /\ rx_ota # <<>>
    /\ rx_kill # <<>>

\* C7: messages are dispatched in send order, none skipped, none twice.
C7_DispatchInSendOrder ==
    /\ Len(dispatched) <= sent
    /\ \A i \in 1..Len(dispatched) : dispatched[i] = i

C7_Witness ==
    /\ Len(dispatched) >= 2
    /\ iterSent >= 2
    /\ ev.kind = "msg"
    /\ ev.msg = 2

\* C8: on_tick of an iteration runs only after a mailbox poll of that
\* iteration found the mailbox empty, with every message that had been
\* enqueued when the iteration began already dispatched.
C8_DrainBeforeTick ==
    ev.kind = "tick" =>
        (drained /\ \A m \in 1..iterSent : WasDispatched(m))

C8_Witness ==
    /\ ev.kind = "tick"
    /\ iterQueued >= 2
    /\ stopCount = 0

\* C9: on_stop runs at most once, only after a stop poll received a signal,
\* always right after such a poll, and no loop iteration starts after it.
C9_OnStopExactlyOnce ==
    /\ stopCount <= 1
    /\ observed <= 1
    /\ stopCount = 1 => observed = 1
    /\ observed = 1 => ((pc = "stop") <=> (stopCount = 0))
    /\ stopCount = 1 => (~running /\ pc \in {"tick", "sleep", "loop", "done", "panicked"})
    /\ (stopCount = 1 /\ ev.kind = "loop") => pc = "done"

C9_Witness ==
    /\ stopCount = 1
    /\ pc = "done"
    /\ rx_kill # <<>>
    /\ kills >= 1

\* C10: no message is dispatched to on_message once on_stop has run.
C10_NoDispatchAfterStop ==
    ev.kind = "msg" => stopCount = 0

C10_Witness ==
    /\ pc = "done"
    /\ stopCount = 1
    /\ Len(dispatched) = drainSent
    /\ drainSent < pollSent
    /\ pollSent < sent

C12_InitFailureEndsQuietly ==
    /\ [](failed = "init" =>
            /\ pc = "panicked"
            /\ dispatched = <<>> /\ state_rx = <<>>
            /\ tickCount = 0 /\ stopCount = 0 /\ observed = 0 /\ iters = 0
            /\ ev.kind \notin {"loop", "msg", "empty", "poll", "stop", "tick",
                               "sleep"})
    /\ (failed = "init" /\ owner = "joining") ~> (owner = "stopped")

C12_Witness ==
    /\ failed = "init"
    /\ owner = "stopped"
    /\ ev.kind = "join" /\ ~ev.ok
    /\ rx_ota # <<>>

\* C13: the value a SendState query reports is the number of on_tick runs
\* before its dispatch, one for each completed loop iteration.
C13_QueryReportsCompletedTicks ==
    /\ (ev.kind = "msg" /\ ev.ok /\ ev.msg > 0) =>
          /\ state_rx # <<>>
          /\ state_rx[Len(state_rx)] = iters
          /\ state_rx[Len(state_rx)] = tickCount
    /\ pc \in {"drain", "poll", "stop", "tick"} =>
          (lines_parsed = iters /\ tickCount = iters)
    /\ Len(state_rx) <= Len(dispatched)

C13_Witness ==
    /\ ev.kind = "msg" /\ ev.ok /\ ev.msg > 0
    /\ state_rx[Len(state_rx)] = 1
    /\ iterQueued >= 1

\* C20: with no hook failing and the actor scheduled fairly, a queued stop
\* signal is eventually received by a stop poll, whatever cloned senders do.
C20_StopEventuallyObserved ==
    [](pc # "panicked") => ((rx_kill # <<>>) ~> (observed >= 1))

\* C21: from the moment stop() has enqueued its stop signal until on_stop
\* starts, on_tick runs at most once and at most one sleep completes; every
\* stop poll made in between receives a signal.
C21_BoundedStopResponse ==
    /\ stopTicks <= 1
    /\ stopSleeps <= 1
    /\ (stopPending /\ ev.kind = "poll") => ev.ok
    /\ (stopPending /\ ~Terminated /\ observed = 0) => rx_kill # <<>>

C21_Witness ==
    /\ ev.kind = "stop"
    /\ owner = "joining"
    /\ ~stopPending
    /\ stopTicks = 1
    /\ stopSleeps = 1

----------------------------------------------------------------------------
\* Properties of the macro

Expanded == result.status # "none"
Generated == result.status = "generated"
Rendered == input = Render(NameText, sections)
DistinctKeywords ==
    \A i, j \in DOMAIN sections : sections[i].kw = sections[j].kw => i = j
LocatedKeywords == {result.locations[i][2] : i \in DOMAIN result.locations}
SectionOrders(n) == {f \in [1..n -> 1..n] : \A i, j \in 1..n : f[i] = f[j] => i = j}
Outcome(r) == [status |-> r.status, attrs |-> r.attrs]

\* C14: the macro never generates an actor whose `input` or `on_message`
\* content is empty after default filling; it fails instead.
C14_MissingRequiredSectionFails ==
    Generated =>
        (result.attrs["input"] # <<>> /\ result.attrs["on_message"] # <<>>)

\* C15: in the resolved mapping every keyword that was not located has its
\* documented default ("100", "std::thread::spawn",
\* "std::thread::JoinHandle<()>", empty otherwise), in particular when only
\* input and on_message are located, and every located keyword keeps the
\* content of its segment.
C15_DefaultsForAbsentKeywords ==
    Generated =>
        /\ DOMAIN result.attrs = Keywords \cup {"name"}
        /\ \A k \in Keywords \ LocatedKeywords :
              result.attrs[k] =
                 CASE k = "tick_interval" -> <<"100">>
                   [] k = "spawner" -> <<"std::thread::spawn">>
                   [] k = "spawner_return_type" -> <<"std::thread::JoinHandle<()>">>
                   [] OTHER -> <<>>
        /\ \A k \in LocatedKeywords : result.attrs[k] = result.segments[k]
        /\ LocatedKeywords = {"name", "input", "on_message"} =>
              \A k \in Keywords \ {"input", "on_message"} :
                 result.attrs[k] = Default(k)
        /\ input = StreamParsingText =>
              /\ result.attrs["tick_interval"] = <<"5", " ", ",">>
              /\ result.attrs["on_stop"] = <<"(", " ", ")">>
              /\ result.attrs["spawner"] = <<"std::thread::spawn">>

C15_Witness ==
    /\ Generated
    /\ LocatedKeywords = {"name", "input", "on_message"}
    /\ result.attrs["input"] # <<>>
    /\ result.attrs["tick_interval"] = <<"100">>
    /\ result.attrs["spawner"] = <<"std::thread::spawn">>

\* C16: for a fixed name and a fixed set of sections, every order of the
\* sections gives the same outcome of the macro.
C16_OrderIndependent ==
    (Expanded /\ Rendered /\ DistinctKeywords) =>
        \A f \in SectionOrders(Len(sections)) :
            Outcome(ActorInternal(
                Render(NameText, [i \in 1..Len(sections) |-> sections[f[i]]]),
                result.debug)) = Outcome(result)

\* the text between two offsets of the input
Between(a, b) == SubSeq(input, a + 1, b)

SegmentationPositional ==
    LET locs == result.locations IN
    /\ \A i \in DOMAIN locs :
          result.attrs[locs[i][2]] =
             Between(locs[i][3],
                     IF i = Len(locs) THEN Len(input) ELSE locs[i + 1][1])
    /\ \A i \in DOMAIN locs : i < Len(locs) => locs[i][1] < locs[i + 1][1]
    /\ (Rendered /\ DistinctKeywords
          /\ \A i \in DOMAIN sections : sections[i].content # <<>>) =>
            /\ result.attrs["name"] = NameText
            /\ \A i \in DOMAIN sections :
                  result.attrs[sections[i].kw] = Tail(sections[i].content)

\* C17 (as stated): each keyword of the resolved mapping has the text from
\* its content start to the next section's start (the last one to the end of
\* the input); for "A input: Ping, on_message: Ping => noop," this is name
\* "A", input "Ping,", on_message "Ping => noop,".
C17_SegmentationAsStated ==
    Generated =>
        /\ SegmentationPositional
        /\ input = ExampleText =>
              /\ result.attrs["name"] = <<"A">>
              /\ result.attrs["input"] = <<"Ping", ",">>
              /\ result.attrs["on_message"] =
                    <<"Ping", " ", "=>", " ", "noop", ",">>

\* C17 (amended): the same, with the example's contents as the rendered text
\* has them: input "Ping ,", on_message "Ping => noop ,", defaults elsewhere.
C17_SegmentationOfRenderedText ==
    Generated =>
        /\ SegmentationPositional
        /\ input = ExampleText =>
              /\ result.attrs["name"] = <<"A">>
              /\ result.attrs["input"] = <<"Ping", " ", ",">>
              /\ result.attrs["on_message"] =
                    <<"Ping", " ", "=>", " ", "noop", " ", ",">>
              /\ result.attrs["tick_interval"] = <<"100">>
              /\ \A k \in Keywords \ {"input", "on_message"} :
                    result.attrs[k] = Default(k)

C17_Witness ==
    /\ Generated
    /\ input = ExampleText
    /\ Len(result.locations) = 3

Occurrence(kw, k) == Find(input, SearchStrings(kw)[k])
Occurs(kw) == \E k \in 1..8 : Occurrence(kw, k) >= 0
LocationsOf(kw) == {i \in DOMAIN result.locations : result.locations[i][2] = kw}

\* C18 (as stated): a keyword's located section starts at the positionally
\* first occurrence of any of its delimiter renderings; at most one section
\* per keyword.
C18_FirstPositionalOccurrence ==
    Expanded =>
        \A kw \in Keywords :
            /\ Cardinality(LocationsOf(kw)) <= 1
            /\ \A i \in LocationsOf(kw) : \A k \in 1..8 :
                  Occurrence(kw, k) >= 0 =>
                      result.locations[i][1] <= Occurrence(kw, k)

RECURSIVE Reassemble(_)
Reassemble(i) ==
    IF i > Len(result.locations) THEN <<>>
    ELSE Between(result.locations[i][1], result.locations[i][3])
            \o result.attrs[result.locations[i][2]] \o Reassemble(i + 1)

\* C18 (amended): a keyword is located exactly when one of its renderings
\* occurs, at most once, at the first occurrence of the first rendering (in
\* the fixed order of the renderings) that occurs anywhere in the input; the
\* delimiters located and the contents resolved make up the whole input, any
\* other occurrence of a delimiter lying inside a content.
C18_FirstRenderingThatOccurs ==
    Expanded =>
        /\ \A kw \in Keywords :
            /\ Cardinality(LocationsOf(kw)) = (IF Occurs(kw) THEN 1 ELSE 0)
            /\ \A i \in LocationsOf(kw) :
                  \E k \in 1..8 :
                     /\ Occurrence(kw, k) = result.locations[i][1]
                     /\ \A j \in 1..(k - 1) : Occurrence(kw, j) = -1
                     /\ result.locations[i][3] = result.locations[i][1] + 5
        /\ Generated => Reassemble(1) = input

C18_Witness ==
    /\ Generated
    /\ \E i \in LocationsOf("input") : \E k \in 1..8 :
          /\ Occurrence("input", k) >= 0
          /\ Occurrence("input", k) < result.locations[i][1]

\* C19: the macro never aborts in the segmentation: in the sorted locations
\* `name` comes first and every content start is at most the next start.
C19_SegmentationTotal ==
    Expanded =>
        /\ result.status = "generated"
        /\ result.locations[1][2] = "name"
        /\ \A i \in DOMAIN result.locations :
              i < Len(result.locations) =>
                  result.locations[i][3] <= result.locations[i + 1][1]
====
